---- MODULE Spec2Model ----
(***************************************************************************)
(* Model of external_perf_tool_detailed.py: the run orchestrator           *)
(* (DetailedExternalPerfTool.run_test / _run_single_test), the in-page     *)
(* metrics collector (_collect_detailed_metrics, with its bounded LCP      *)
(* observation window), the analyzer (_analyze_results) and the top-level  *)
(* caller (main.run_test).                                                 *)
(*                                                                         *)
(* Metric values are JavaScript numbers in the program; the model uses     *)
(* integers (milliseconds).  An average is kept as the exact fraction      *)
(* sum/len and compared by cross-multiplication.                           *)
(***************************************************************************)
EXTENDS Integers, Sequences, FiniteSets, TLC

VARIABLES
    runs,           \* run_test argument: number of runs requested
    cache_mode,     \* run_test argument: "warm" or "cold"
    has_headers,    \* whether self.config carries a non-empty 'headers'
    pc,             \* position of the single control flow
    run,            \* loop variable of run_test (0 before the loop)
    all_results,    \* run_test's local list all_results
    browser,        \* _run_single_test's local: "unbound", "open", "closed"
    pending,        \* how the try block of _run_single_test completed
    metrics,        \* the record page.evaluate returned to Python (or Null)
    page,           \* synchronous readings taken when the evaluation starts
    lcpDetails,     \* the in-page lcpDetails object
    observer,       \* the PerformanceObserver: "none", "observing", "disconnected"
    raised,         \* exception travelling out of run_test ("none" if none)
    outcome,        \* how main.run_test ended ("running" until then)
    results,        \* main.run_test's local 'results' (Null while unassigned)
    saved,          \* content written to the output file (Null if none)
    log,            \* history: adapter commands issued in the current run
    arrivals,       \* history: LCP entries handed to the observer callback
    late,           \* history: LCP entries the page emitted after disconnect
    fate,           \* history: how each attempt's try block was left
    interrupted,    \* history: the user interrupted the test
    attempts,       \* history: calls of _run_single_test
    waits,          \* history: completed inter-run sleeps
    openSessions    \* history: browser sessions currently open

vars == << runs, cache_mode, has_headers, pc, run, all_results, browser,
           pending, metrics, page, lcpDetails, observer, raised, outcome,
           results, saved, log, arrivals, late, fate, interrupted,
           attempts, waits, openSessions >>

\* ------------------------------------------------------------------ bounds

MaxRuns == 2
MaxCandidates == 3
MaxRunCandidates == 1
MaxAnalyzed == 4

\* ------------------------------------------------------- program constants

FcpExcellent == 1800
FcpGood == 3000
LcpExcellent == 2500
LcpGood == 4000

\* ----------------------------------------------------------------- values

\* JavaScript null / Python None for a numeric value.
Null == -1

\* entry.element when the LCP entry carries no element.
NoElement == "null"

\* LCP entries a page can report: startTime, size and the element (or none).
\* The first dominates the second in both startTime and size.
LcpCandidates ==
    { [startTime |-> 2600, size |-> 900, element |-> "IMG"],
      [startTime |-> 1200, size |-> 400, element |-> NoElement] }

\* FCP readings: no first-contentful-paint entry, or its startTime.
FcpReadings == { Null, 1700 }

\* Navigation readings: no navigation entry, or responseStart - requestStart.
NavReadings == { Null, 120 }

\* Number of resource-timing entries of the page.
ResourceReadings == { 7 }

CacheModes == { "warm", "cold" }

Last(s) == s[Len(s)]

RECURSIVE Sum(_)
Sum(s) == IF s = << >> THEN 0 ELSE Head(s) + Sum(Tail(s))

\* Python truthiness of a numeric value or None.
Truthy(v) == v # Null /\ v # 0

\* All sequences over S of length lo..hi.
SeqsOf(S, lo, hi) == UNION { [1..n -> S] : n \in lo..hi }

\* ------------------------------------------- metrics collector (in-page)

\* const lcpDetails = { value: null, entries: [], finalElement: null, ... }
NewLcpDetails ==
    [ value |-> Null,
      entries |-> << >>,
      finalElement |-> NoElement,
      measurements |-> << >>,
      method |-> "PerformanceObserver with buffered entries" ]

\* entry.element ? { tagName: ..., ... } : null
ElementDetail(element) ==
    IF element = NoElement THEN NoElement ELSE element

\* const entryDetail = { startTime, size, ..., element }
EntryDetail(entry) ==
    [ startTime |-> entry.startTime,
      size |-> entry.size,
      element |-> ElementDetail(entry.element) ]

\* Mutant: the value follows the entry with the greatest startTime.
ObserverEntryKeepLatestStart(d, entry) ==
    [ d EXCEPT !.value = IF entry.startTime > @ THEN entry.startTime ELSE @,
               !.entries = Append(@, EntryDetail(entry)) ]

\* One iteration of the observer callback's loop over list.getEntries().
ObserverEntry(d, entry) ==
    [ d EXCEPT !.value = entry.startTime,
               !.entries = Append(@, EntryDetail(entry)) ]

RECURSIVE ObserverCallback(_, _)
\* The observer callback applied to one delivered list of entries.
ObserverCallback(d, list) ==
    IF list = << >> THEN d
    ELSE ObserverCallback(ObserverEntry(d, Head(list)), Tail(list))

\* Mutant: the first entry, not the last, is classified final.
MeasurementsFirstFinal(entries) ==
    [ i \in 1..Len(entries) |->
        [ sequence |-> i,
          timing |-> entries[i].startTime,
          size |-> entries[i].size,
          reason |-> IF i = 1 THEN "final_lcp" ELSE "superseded" ] ]

\* lcpDetails.entries.map((entry, i) => ({ sequence: i + 1, ... }))
Measurements(entries) ==
    [ i \in 1..Len(entries) |->
        [ sequence |-> i,
          timing |-> entries[i].startTime,
          size |-> entries[i].size,
          reason |-> IF i = Len(entries) THEN "final_lcp" ELSE "superseded" ] ]

\* The setTimeout callback's processing of lcpDetails (after disconnect).
TimerCallback(d) ==
    IF Len(d.entries) > 0
    THEN [ d EXCEPT !.finalElement = Last(d.entries).element,
                    !.measurements = Measurements(d.entries) ]
    ELSE d @@ [ reason |-> "No LCP entries captured by observer" ]

\* The synchronous readings: navigation, FCP and resources.
SyncReadings(nav, fcp, count) ==
    [ nav |-> nav, fcp |-> fcp, count |-> count ]

\* The vitals object: fcp is set only when a first-contentful-paint entry
\* was found; lcp and lcp_details come from the resolved lcpPromise.
Vitals(fcp, lcpResult) ==
    LET base == [ fcp_details |->
                    IF fcp # Null
                    THEN "Standard Paint Timing API"
                    ELSE "No first-contentful-paint entry found",
                  lcp |-> lcpResult.value,
                  lcp_details |-> lcpResult ]
    IN IF fcp # Null THEN base @@ [ fcp |-> fcp ] ELSE base

\* The object the evaluation returns: results.navigation is set only when
\* a navigation entry exists.
EvaluateResult(readings, lcpResult) ==
    LET base == [ resources |-> [ total_count |-> readings.count ],
                  web_vitals |-> Vitals(readings.fcp, lcpResult) ]
    IN IF readings.nav # Null
       THEN base @@ [ navigation |-> [ ttfb |-> readings.nav ] ]
       ELSE base

\* async def _collect_detailed_metrics(self, page): the record the
\* evaluation returns for a page with the given synchronous readings whose
\* observer is handed the entries of list, in order, before the timer fires.
collect_detailed_metrics(readings, list) ==
    EvaluateResult(readings, TimerCallback(ObserverCallback(NewLcpDetails, list)))

\* --------------------------------------------------------------- analyzer

\* r.get('web_vitals', {}).get('fcp')
FcpOf(r) == IF "fcp" \in DOMAIN r.web_vitals THEN r.web_vitals.fcp ELSE Null

\* r.get('web_vitals', {}).get('lcp')
LcpOf(r) == r.web_vitals.lcp

\* r.get('navigation', {}).get('ttfb')
TtfbOf(r) == IF "navigation" \in DOMAIN r THEN r.navigation.ttfb ELSE Null

\* r.get('resources', {}).get('total_count')
CountOf(r) == r.resources.total_count

RECURSIVE Insert(_, _)
\* v placed into the ascending sequence s, after the elements equal to it.
Insert(v, s) ==
    IF s = << >> THEN << v >>
    ELSE IF v < Head(s) THEN << v >> \o s
    ELSE << Head(s) >> \o Insert(v, Tail(s))

RECURSIVE sorted(_)
\* Python's sorted(values): ascending.
sorted(values) ==
    IF values = << >> THEN << >>
    ELSE Insert(Last(values), sorted(SubSeq(values, 1, Len(values) - 1)))

\* Mutant: the lower of the two middle elements of an even-length list.
LowerMedianIndex(values) == ((Len(values) - 1) \div 2) + 1

\* The index (1-based here) stats() reads the median at: len(values) // 2.
MedianIndex(values) == (Len(values) \div 2) + 1

\* def stats(values, name)
stats(values, name) ==
    IF values = << >> THEN name :> "No data"
    ELSE [ avg |-> [ num |-> Sum(values), den |-> Len(values) ],
           min |-> CHOOSE v \in { values[i] : i \in 1..Len(values) } :
                      \A i \in 1..Len(values) : v <= values[i],
           max |-> CHOOSE v \in { values[i] : i \in 1..Len(values) } :
                      \A i \in 1..Len(values) : v >= values[i],
           median |-> sorted(values)[MedianIndex(values)] ]

\* Mutant: the comparison with the threshold made inclusive.
AvgAtMost(st, limit) ==
    "avg" \in DOMAIN st /\ st.avg.num <= limit * st.avg.den

\* metric.get('avg', float('inf')) < limit
AvgBelow(st, limit) ==
    "avg" \in DOMAIN st /\ st.avg.num < limit * st.avg.den

\* 'excellent' if avg < a else 'good' if avg < b else 'poor'
Rating(st, a, b) ==
    IF AvgBelow(st, a) THEN "excellent"
    ELSE IF AvgBelow(st, b) THEN "good"
    ELSE "poor"

\* The 'overall_rating' expression.
OverallRating(fcpSt, lcpSt) ==
    IF AvgBelow(fcpSt, FcpExcellent) /\ AvgBelow(lcpSt, LcpExcellent)
    THEN "excellent"
    ELSE IF AvgBelow(fcpSt, FcpGood) /\ AvgBelow(lcpSt, LcpGood)
    THEN "good"
    ELSE "needs_improvement"

\* fcps = [r['web_vitals']['fcp'] for r in results if r.get(...).get('fcp')]
Fcps(rs) == SelectSeq([ i \in 1..Len(rs) |-> FcpOf(rs[i]) ], Truthy)

\* lcps = [r['web_vitals']['lcp'] for r in results if r.get(...).get('lcp')]
Lcps(rs) == SelectSeq([ i \in 1..Len(rs) |-> LcpOf(rs[i]) ], Truthy)

\* ttfbs = [r['navigation']['ttfb'] for r in results if r.get(...).get('ttfb')]
Ttfbs(rs) == SelectSeq([ i \in 1..Len(rs) |-> TtfbOf(rs[i]) ], Truthy)

\* resource_counts = [r['resources']['total_count'] for r in results if ...]
Counts(rs) == SelectSeq([ i \in 1..Len(rs) |-> CountOf(rs[i]) ], Truthy)

\* def _analyze_results(self, results, cache_mode)
analyze_results(rs, mode) ==
    IF rs = << >> THEN [ error |-> "No successful tests to analyze" ]
    ELSE LET fcpSt == stats(Fcps(rs), "fcp")
             lcpSt == stats(Lcps(rs), "lcp")
         IN [ successful_tests |-> Len(rs),
              cache_mode |-> mode,
              metrics |-> [ fcp |-> fcpSt,
                            lcp |-> lcpSt,
                            ttfb |-> stats(Ttfbs(rs), "ttfb"),
                            resources |-> stats(Counts(rs), "resources") ],
              assessment |->
                [ fcp_rating |-> Rating(fcpSt, FcpExcellent, FcpGood),
                  lcp_rating |-> Rating(lcpSt, LcpExcellent, LcpGood),
                  overall_rating |-> OverallRating(fcpSt, lcpSt) ] ]

\* ----------------------------------------------------------- orchestrator

NoReadings == SyncReadings(Null, Null, 0)

\* Positions of _run_single_test at which a call is awaited.
AwaitPoints ==
    { "connect", "set_headers", "goto", "goto_fallback", "new_cdp_session",
      "clear_cache", "clear_cookies", "reload", "reload_fallback",
      "warm_sleep", "stabilize", "evaluate" }

\* Positions inside the try block of _run_single_test.
TryBlock ==
    { "connect", "set_headers", "goto", "goto_fallback", "new_cdp_session",
      "clear_cache", "clear_cookies", "reload", "reload_fallback",
      "warm_sleep", "stabilize", "evaluate", "lcp_window", "summary" }

Init ==
    /\ runs \in 1..MaxRuns
    /\ cache_mode \in CacheModes
    /\ has_headers \in BOOLEAN
    /\ pc = "loop"
    /\ run = 0
    /\ all_results = << >>
    /\ browser = "unbound"
    /\ pending = "none"
    /\ metrics = << >>
    /\ page = NoReadings
    /\ lcpDetails = NewLcpDetails
    /\ observer = "none"
    /\ raised = "none"
    /\ outcome = "running"
    /\ results = << >>
    /\ saved = << >>
    /\ log = << >>
    /\ arrivals = << >>
    /\ late = 0
    /\ fate = << >>
    /\ interrupted = FALSE
    /\ attempts = 0
    /\ waits = 0
    /\ openSessions = 0

\* Mutant: the except clause lets the exception travel on.
ExceptPropagate ==
    /\ pending' = "raise"
    /\ pc' = "finally"

\* "except Exception as e: ... return None": the try block is left with the
\* result None and control reaches the finally clause.
ExceptReturnNone ==
    /\ pending' = "return_none"
    /\ pc' = "finally"

\* An awaited adapter call inside the try block that either completes, and
\* control moves to next, or raises into the except clause.
Await(at, cmd, ok, next) ==
    /\ pc = at
    /\ log' = Append(log, cmd)
    /\ IF ok
       THEN pc' = next /\ UNCHANGED << pending, fate >>
       ELSE /\ ExceptReturnNone
            /\ fate' = Append(fate, IF at = "connect" THEN "connect_failed"
                                    ELSE "failed")

\* Mutant: the clearing branch is taken whatever the cache mode.
CachePolicyAlwaysCold == "new_cdp_session"

\* The cache-mode branch taken after the initial navigation.
CachePolicy ==
    IF cache_mode = "cold" THEN "new_cdp_session"
    ELSE IF cache_mode = "warm" THEN "warm_sleep"
    ELSE "stabilize"

\* for run in range(1, runs + 1): result = await self._run_single_test(...)
StartRun ==
    /\ pc = "loop"
    /\ run < runs
    /\ run' = run + 1
    /\ attempts' = attempts + 1
    /\ pc' = "connect"
    /\ browser' = "unbound"
    /\ pending' = "none"
    /\ metrics' = << >>
    /\ page' = NoReadings
    /\ lcpDetails' = NewLcpDetails
    /\ observer' = "none"
    /\ log' = << >>
    /\ arrivals' = << >>
    /\ late' = 0
    /\ UNCHANGED << runs, cache_mode, has_headers, all_results, raised,
                    outcome, results, saved, waits, openSessions, fate,
                    interrupted >>

\* browser = await p.chromium.connect_over_cdp(self.cdp_url)
Connect ==
    /\ \E ok \in BOOLEAN :
         /\ Await("connect", "connect_over_cdp", ok,
                  IF has_headers THEN "set_headers" ELSE "goto")
         /\ browser' = IF ok THEN "open" ELSE browser
         /\ openSessions' = IF ok THEN openSessions + 1 ELSE openSessions
    /\ UNCHANGED << runs, cache_mode, has_headers, run, all_results, metrics,
                    page, lcpDetails, observer, raised, outcome, results,
                    saved, arrivals, late, attempts, waits, interrupted >>

InTry == UNCHANGED << runs, cache_mode, has_headers, run, all_results,
                      browser, metrics, page, lcpDetails, observer, raised,
                      outcome, results, saved, arrivals, late, attempts,
                      waits, openSessions,
                    interrupted >>

\* await page.set_extra_http_headers(headers)
SetHeaders ==
    /\ \E ok \in BOOLEAN :
         Await("set_headers", "set_extra_http_headers", ok, "goto")
    /\ InTry

\* A navigation without the inner try: a failure of the network-idle
\* attempt is handled by the outer except clause.
GotoNoFallback ==
    /\ \E ok \in BOOLEAN :
         Await("goto", "goto_networkidle", ok, CachePolicy)
    /\ InTry

\* await page.goto(url, wait_until="networkidle", timeout=15000), with its
\* own "except Exception" leading to the fallback.
Goto ==
    /\ pc = "goto"
    /\ log' = Append(log, "goto_networkidle")
    /\ \E ok \in BOOLEAN : pc' = IF ok THEN CachePolicy ELSE "goto_fallback"
    /\ UNCHANGED << pending, fate >>
    /\ InTry

\* await page.goto(url, wait_until="domcontentloaded", timeout=15000)
GotoFallback ==
    /\ \E ok \in BOOLEAN :
         Await("goto_fallback", "goto_domcontentloaded", ok, CachePolicy)
    /\ InTry

\* client = await context.new_cdp_session(page)
NewCdpSession ==
    /\ \E ok \in BOOLEAN :
         Await("new_cdp_session", "new_cdp_session", ok, "clear_cache")
    /\ InTry

\* await client.send('Network.clearBrowserCache')
ClearCache ==
    /\ \E ok \in BOOLEAN :
         Await("clear_cache", "Network.clearBrowserCache", ok, "clear_cookies")
    /\ InTry

\* await client.send('Network.clearBrowserCookies')
ClearCookies ==
    /\ \E ok \in BOOLEAN :
         Await("clear_cookies", "Network.clearBrowserCookies", ok, "reload")
    /\ InTry

\* await page.reload(wait_until="networkidle", timeout=15000), with its own
\* "except Exception" leading to the fallback.
Reload ==
    /\ pc = "reload"
    /\ log' = Append(log, "reload_networkidle")
    /\ \E ok \in BOOLEAN : pc' = IF ok THEN "stabilize" ELSE "reload_fallback"
    /\ UNCHANGED << pending, fate >>
    /\ InTry

\* await page.reload(wait_until="domcontentloaded", timeout=15000)
ReloadFallback ==
    /\ \E ok \in BOOLEAN :
         Await("reload_fallback", "reload_domcontentloaded", ok, "stabilize")
    /\ InTry

\* elif cache_mode == 'warm': await asyncio.sleep(1)
WarmSleep ==
    /\ Await("warm_sleep", "sleep_warm", TRUE, "stabilize")
    /\ InTry

\* await asyncio.sleep(stabilization_time)
Stabilize ==
    /\ Await("stabilize", "sleep_stabilize", TRUE, "evaluate")
    /\ InTry

\* metrics = await self._collect_detailed_metrics(page): the evaluation as
\* one call.  The page's readings and the list of LCP entries its observer
\* receives during the window are the inputs; the call returns the record
\* or raises (script error, page gone) into the except clause.
Evaluate ==
    /\ \E ok \in BOOLEAN :
         /\ Await("evaluate", "evaluate", ok, "summary")
         /\ IF ok
            THEN \E nav \in NavReadings, fcp \in FcpReadings,
                    count \in ResourceReadings,
                    list \in SeqsOf(LcpCandidates, 0, MaxRunCandidates) :
                   metrics' = << collect_detailed_metrics(
                                    SyncReadings(nav, fcp, count), list) >>
            ELSE UNCHANGED metrics
    /\ UNCHANGED << runs, cache_mode, has_headers, run, all_results, browser,
                    page, lcpDetails, observer, raised, outcome, results,
                    saved, arrivals, late, attempts, waits, openSessions,
                    interrupted >>

\* A summary that prints every reading with its default format: a record
\* without navigation timing is labelled and returned like any other.
SummaryWithoutFormat ==
    /\ pc = "summary"
    /\ metrics' = << metrics[1] @@
                     [ run_number |-> run, cache_mode |-> cache_mode ] >>
    /\ pending' = "return_metrics"
    /\ fate' = Append(fate, "ok")
    /\ pc' = "finally"
    /\ UNCHANGED << runs, cache_mode, has_headers, run, all_results, browser,
                    page, lcpDetails, observer, raised, outcome, results,
                    saved, log, arrivals, late, attempts, waits,
                    openSessions, interrupted >>

\* The quick summary: ttfb = metrics.get('navigation', {}).get('ttfb', 'N/A')
\* is formatted with {ttfb:.1f}, which raises ValueError for 'N/A'; otherwise
\* run_number and cache_mode are set and metrics is returned.
Summary ==
    /\ pc = "summary"
    /\ IF TtfbOf(metrics[1]) = Null
       THEN /\ ExceptReturnNone
            /\ fate' = Append(fate, "failed")
            /\ UNCHANGED metrics
       ELSE /\ metrics' = << metrics[1] @@
                             [ run_number |-> run, cache_mode |-> cache_mode ] >>
            /\ pending' = "return_metrics"
            /\ fate' = Append(fate, "ok")
            /\ pc' = "finally"
    /\ UNCHANGED << runs, cache_mode, has_headers, run, all_results, browser,
                    page, lcpDetails, observer, raised, outcome, results,
                    saved, log, arrivals, late, attempts, waits,
                    openSessions, interrupted >>

\* finally: await browser.close().  When connect_over_cdp raised, the local
\* name browser was never bound and the clause raises UnboundLocalError,
\* which replaces the pending return and leaves run_test.  Otherwise the
\* session is closed and the pending return or exception proceeds.  An
\* exception leaves _run_single_test and run_test, whose locals are gone.
Finally ==
    /\ pc = "finally"
    /\ IF browser = "unbound"
       THEN /\ raised' = "UnboundLocalError"
            /\ pc' = "main_except"
            /\ UNCHANGED openSessions
       ELSE /\ openSessions' = openSessions - 1
            /\ IF pending = "raise"
               THEN raised' = "KeyboardInterrupt" /\ pc' = "main_except"
               ELSE raised' = raised /\ pc' = "after_run"
    /\ IF pc' = "main_except"
       THEN /\ browser' = "unbound"
            /\ pending' = "none"
            /\ metrics' = << >>
            /\ log' = << >>
       ELSE /\ browser' = "closed"
            /\ log' = Append(log, "close")
            /\ UNCHANGED << pending, metrics >>
    /\ UNCHANGED << runs, cache_mode, has_headers, run, all_results, page,
                    lcpDetails, observer, outcome, results, saved, arrivals,
                    late, fate, interrupted, attempts, waits >>

\* _run_single_test has returned and its locals are gone.
\* if result: all_results.append(result) ...; if run < runs: (wait)
AfterRun ==
    /\ pc = "after_run"
    /\ all_results' = IF pending = "return_metrics"
                      THEN Append(all_results, metrics[1])
                      ELSE all_results
    /\ pc' = IF run < runs THEN "wait" ELSE "analyze"
    /\ browser' = "unbound"
    /\ pending' = "none"
    /\ metrics' = << >>
    /\ page' = NoReadings
    /\ lcpDetails' = NewLcpDetails
    /\ observer' = "none"
    /\ log' = << >>
    /\ arrivals' = << >>
    /\ late' = 0
    /\ UNCHANGED << runs, cache_mode, has_headers, run, raised, outcome,
                    results, saved, attempts, waits, openSessions, fate,
                    interrupted >>

\* await asyncio.sleep(wait_time)
Wait ==
    /\ pc = "wait"
    /\ waits' = waits + 1
    /\ pc' = "loop"
    /\ UNCHANGED << runs, cache_mode, has_headers, run, all_results, browser,
                    pending, metrics, page, lcpDetails, observer, raised,
                    outcome, results, saved, log, arrivals, late, attempts,
                    openSessions, fate, interrupted >>

\* The user interrupts the test while a step of the run or the inter-run
\* wait is awaited.  Inside the try block the exception is not an Exception,
\* so the except clause is skipped and the finally clause runs; in the wait
\* it leaves run_test directly.
Interrupt ==
    /\ pc \in AwaitPoints \cup { "wait" }
    /\ interrupted' = TRUE
    /\ IF pc = "wait"
       THEN /\ raised' = "KeyboardInterrupt"
            /\ pc' = "main_except"
            /\ UNCHANGED << pending, fate >>
       ELSE /\ pending' = "raise"
            /\ fate' = Append(fate, "interrupted")
            /\ pc' = "finally"
            /\ UNCHANGED raised
    /\ UNCHANGED << runs, cache_mode, has_headers, run, all_results, browser,
                    metrics, page, lcpDetails, observer, outcome, results,
                    saved, log, arrivals, late, attempts, waits,
                    openSessions >>

\* ------------------------------------------------- aggregation and caller

\* analysis = self._analyze_results(all_results, cache_mode); return {...};
\* main.run_test binds the returned dict to its local 'results'.
Analyze ==
    /\ pc = "analyze"
    /\ results' = << [ test_config |-> [ cache_mode |-> cache_mode,
                                          runs |-> runs ],
                       results |-> all_results,
                       analysis |-> analyze_results(all_results, cache_mode) ] >>
    /\ pc' = "display"
    /\ UNCHANGED << runs, cache_mode, has_headers, run, all_results, browser,
                    pending, metrics, page, lcpDetails, observer, raised,
                    outcome, saved, log, arrivals, late, attempts, waits,
                    openSessions, fate, interrupted >>

\* The final display reads analysis['successful_tests'], analysis['metrics']
\* and analysis['assessment']; a missing key raises KeyError.
Display ==
    /\ pc = "display"
    /\ IF "successful_tests" \in DOMAIN results[1].analysis
       THEN pc' = "save" /\ UNCHANGED raised
       ELSE pc' = "main_except" /\ raised' = "KeyError"
    /\ UNCHANGED << runs, cache_mode, has_headers, run, all_results, browser,
                    pending, metrics, page, lcpDetails, observer, outcome,
                    results, saved, log, arrivals, late, attempts, waits,
                    openSessions, fate, interrupted >>

\* json.dump(results, f, indent=2)
Save ==
    /\ pc = "save"
    /\ saved' = results
    /\ outcome' = "saved"
    /\ pc' = "done"
    /\ UNCHANGED << runs, cache_mode, has_headers, run, all_results, browser,
                    pending, metrics, page, lcpDetails, observer, raised,
                    results, log, arrivals, late, attempts, waits,
                    openSessions, fate, interrupted >>

\* except KeyboardInterrupt: print(...) / except Exception as e: print(...)
MainExcept ==
    /\ pc = "main_except"
    /\ outcome' = IF raised = "KeyboardInterrupt" THEN "interrupted" ELSE "failed"
    /\ pc' = "done"
    /\ UNCHANGED << runs, cache_mode, has_headers, run, all_results, browser,
                    pending, metrics, page, lcpDetails, observer, raised,
                    results, saved, log, arrivals, late, attempts, waits,
                    openSessions, fate, interrupted >>

Next ==
    \/ StartRun
    \/ Connect
    \/ SetHeaders
    \/ Goto
    \/ GotoFallback
    \/ NewCdpSession
    \/ ClearCache
    \/ ClearCookies
    \/ Reload
    \/ ReloadFallback
    \/ WarmSleep
    \/ Stabilize
    \/ Evaluate
    \/ Summary
    \/ Finally
    \/ AfterRun
    \/ Wait
    \/ Interrupt
    \/ Analyze
    \/ Display
    \/ Save
    \/ MainExcept

Spec == Init /\ [][Next]_vars

\* --------------------------------- the observation window, step by step

\* Mutant: the observer is left connected.
DisconnectOmitted(o) == o

\* observer.disconnect()
Disconnect(o) == "disconnected"

\* The evaluation starts: the script takes the synchronous readings, creates
\* lcpDetails and the observer (observe({type: ..., buffered: true})) and
\* arms the timer.
EvaluateStart ==
    /\ pc = "evaluate"
    /\ \E nav \in NavReadings, fcp \in FcpReadings, count \in ResourceReadings :
         page' = SyncReadings(nav, fcp, count)
    /\ lcpDetails' = NewLcpDetails
    /\ observer' = "observing"
    /\ log' = Append(log, "evaluate")
    /\ pc' = "lcp_window"
    /\ UNCHANGED << runs, cache_mode, has_headers, run, all_results, browser,
                    pending, metrics, raised, outcome, results, saved,
                    arrivals, late, fate, interrupted, attempts, waits,
                    openSessions >>

\* The page reports largest-contentful-paint entries.  The browser hands
\* them to the observer callback while the observer is observing; after
\* disconnect() they reach nobody.
PageEmitsLcp ==
    /\ pc \in { "lcp_window", "summary" }
    /\ \E list \in SeqsOf(LcpCandidates, 1, MaxCandidates - Len(arrivals) - late) :
         IF observer = "observing"
         THEN /\ lcpDetails' = ObserverCallback(lcpDetails, list)
              /\ arrivals' = arrivals \o list
              /\ late' = late
         ELSE /\ late' = late + Len(list)
              /\ UNCHANGED << lcpDetails, arrivals >>
    /\ UNCHANGED << runs, cache_mode, has_headers, pc, run, all_results,
                    browser, pending, metrics, page, observer, raised,
                    outcome, results, saved, log, fate, interrupted,
                    attempts, waits, openSessions >>

\* setTimeout(() => { observer.disconnect(); ...; resolve(lcpDetails) }, 3000)
\* followed, in the same task, by "vitals.lcp = lcpResult.value; ...;
\* return results" and the serialisation of the result to Python.
TimerFires ==
    /\ pc = "lcp_window"
    /\ observer' = Disconnect(observer)
    /\ lcpDetails' = TimerCallback(lcpDetails)
    /\ metrics' = << EvaluateResult(page, lcpDetails') >>
    /\ pc' = "summary"
    /\ UNCHANGED << runs, cache_mode, has_headers, run, all_results, browser,
                    pending, page, raised, outcome, results, saved, log,
                    arrivals, late, fate, interrupted, attempts, waits,
                    openSessions >>

\* The only run of a test has connected, navigated, applied the cache
\* policy and paused; the evaluation is about to start.
InitLcp ==
    /\ runs = 1
    /\ cache_mode \in CacheModes
    /\ has_headers = FALSE
    /\ pc = "evaluate"
    /\ run = 1
    /\ all_results = << >>
    /\ browser = "open"
    /\ pending = "none"
    /\ metrics = << >>
    /\ page = NoReadings
    /\ lcpDetails = NewLcpDetails
    /\ observer = "none"
    /\ raised = "none"
    /\ outcome = "running"
    /\ results = << >>
    /\ saved = << >>
    /\ log = IF cache_mode = "cold"
             THEN << "connect_over_cdp", "goto_networkidle", "new_cdp_session",
                     "Network.clearBrowserCache", "Network.clearBrowserCookies",
                     "reload_networkidle", "sleep_stabilize" >>
             ELSE << "connect_over_cdp", "goto_networkidle", "sleep_warm",
                     "sleep_stabilize" >>
    /\ arrivals = << >>
    /\ late = 0
    /\ fate = << >>
    /\ interrupted = FALSE
    /\ attempts = 1
    /\ waits = 0
    /\ openSessions = 1

NextLcp ==
    \/ EvaluateStart
    \/ PageEmitsLcp
    \/ TimerFires

SpecLcp == InitLcp /\ [][NextLcp]_vars

\* ------------------------------------------ the analyzer on bounded inputs

\* (FCP, LCP) readings of the runs handed to the analyzer.
AnalyzerInputs ==
    { << 1799, 2499 >>, << 1800, 2500 >>, << 3000, 4000 >>, << Null, 1000 >>,
      << 1800, Null >>, << 2999, 2000 >>, << 1700, 3000 >> }

\* The record run k returns for a page with the given FCP reading whose
\* observer received one LCP entry (or none, for Null).
RunRecord(fcp, lcp, k, mode) ==
    LET list == IF lcp = Null THEN << >>
                ELSE << [ startTime |-> lcp, size |-> 900, element |-> "IMG" ] >>
        lcpResult == TimerCallback(ObserverCallback(NewLcpDetails, list))
    IN EvaluateResult(SyncReadings(120, fcp, 7), lcpResult)
         @@ [ run_number |-> k, cache_mode |-> mode ]

\* run_test has finished its loop with the given successful runs.
InitAnalyze ==
    /\ cache_mode \in CacheModes
    /\ \E inputs \in SeqsOf(AnalyzerInputs, 0, MaxAnalyzed) :
         /\ all_results = [ i \in 1..Len(inputs) |->
                              RunRecord(inputs[i][1], inputs[i][2], i, cache_mode) ]
         /\ runs = IF Len(inputs) = 0 THEN 1 ELSE Len(inputs)
    /\ has_headers = FALSE
    /\ pc = "analyze"
    /\ run = runs
    /\ browser = "unbound"
    /\ pending = "none"
    /\ metrics = << >>
    /\ page = NoReadings
    /\ lcpDetails = NewLcpDetails
    /\ observer = "none"
    /\ raised = "none"
    /\ outcome = "running"
    /\ results = << >>
    /\ saved = << >>
    /\ log = << >>
    /\ arrivals = << >>
    /\ late = 0
    /\ fate = IF all_results = << >> THEN << "failed" >>
              ELSE [ i \in 1..runs |-> "ok" ]
    /\ interrupted = FALSE
    /\ attempts = runs
    /\ waits = runs - 1
    /\ openSessions = 0

NextAnalyze ==
    \/ Analyze
    \/ Display
    \/ Save
    \/ MainExcept

SpecAnalyze == InitAnalyze /\ [][NextAnalyze]_vars

\* ------------------------------------------------------------- properties

\* The run numbers of a sequence of run records.
RunNumbers(rs) == [ i \in 1..Len(rs) |-> rs[i].run_number ]

\* The attempts (by number, ascending) whose try block returned metrics.
OkRuns == SelectSeq([ i \in 1..Len(fate) |-> i ], LAMBDA i : fate[i] = "ok")

\* The except clause has handled a failure in the current run that came
\* after the session was connected.
FailedAfterConnect == pending = "return_none" /\ browser # "unbound"

\* Some attempt's try block was left by a failure of connect_over_cdp.
ConnectionFailed == \E i \in 1..Len(fate) : fate[i] = "connect_failed"

\* C1: a connection failure in run k aborts only run k: no exception leaves
\* run_test because of it, run_test goes on to make all N attempts and
\* returns a result whose 'results' hold the successful runs, without k.
C1_ConnectionFailureAbortsOnlyTheRun ==
    (ConnectionFailed /\ ~interrupted) =>
        /\ raised \in { "none", "KeyError" }
        /\ pc = "done" => /\ attempts = runs
                          /\ results # << >>
                          /\ RunNumbers(results[1].results) = OkRuns

\* C2: on every exit path of a run, any session opened in the run has been
\* closed when the run ends, and the release step raises no new error out
\* of the run.
C2_SessionReleasedOnEveryExit ==
    /\ pc \notin (TryBlock \cup { "finally" }) => openSessions = 0
    /\ raised # "UnboundLocalError"

\* C3: a run that fails after its session was connected produces no record,
\* leaves run_test running and is not retried; when no connection failure
\* and no interruption occurs, exactly N attempts are made and 'results'
\* holds exactly the records of the successful attempts, so at most N.
C3_FailedRunDroppedAllAttemptsMade ==
    /\ attempts = run
    /\ FailedAfterConnect =>
         /\ pc \in { "finally", "after_run" }
         /\ raised = "none"
         /\ \A i \in 1..Len(all_results) : all_results[i].run_number # run
    /\ pc \in { "loop", "wait", "analyze" } => RunNumbers(all_results) = OkRuns
    /\ ( /\ pc = "done"
         /\ ~interrupted
         /\ \A i \in 1..Len(fate) : fate[i] # "connect_failed" )
       => /\ attempts = runs
          /\ Len(fate) = runs
          /\ results # << >>
          /\ RunNumbers(results[1].results) = OkRuns
          /\ Len(results[1].results) <= runs

\* Two runs were asked for, the first failed after connecting and the
\* second succeeded: both were attempted and 'results' holds run 2 alone.
C3_Witness ==
    /\ pc = "done"
    /\ runs = 2
    /\ fate = << "failed", "ok" >>
    /\ attempts = 2
    /\ results # << >>
    /\ RunNumbers(results[1].results) = << 2 >>

\* C4: for every outcome of run_test, the zero-success one included, the
\* returned analysis carries successful_tests, equal to len(results).
C4_SuccessfulTestsAlwaysReported ==
    results # << >> =>
        /\ "successful_tests" \in DOMAIN results[1].analysis
        /\ results[1].analysis.successful_tests = Len(results[1].results)

\* C5: when the user interrupts the run sequence, the remaining runs are
\* not executed and the records of the completed runs remain available to
\* the caller (which can analyse and save them).
C5_PartialResultsSurviveInterrupt ==
    (pc = "done" /\ interrupted /\ all_results # << >>) =>
        /\ results # << >>
        /\ results[1].results = all_results

\* The analysis returned by run_test, once main.run_test holds it.
Returned == results # << >>

HasStats == Returned /\ "metrics" \in DOMAIN results[1].analysis

Below(vals, v) == Cardinality({ i \in 1..Len(vals) : vals[i] < v })

AtMost(vals, v) == Cardinality({ i \in 1..Len(vals) : vals[i] <= v })

\* m is the element at 0-based index len // 2 of the ascending order of
\* vals: at most len // 2 elements lie strictly below it and more than
\* len // 2 elements are at most it.
IsUpperMedian(vals, m) ==
    /\ \E i \in 1..Len(vals) : vals[i] = m
    /\ Below(vals, m) <= Len(vals) \div 2
    /\ AtMost(vals, m) > Len(vals) \div 2

MedianOk(vals, st) ==
    vals # << >> => /\ "median" \in DOMAIN st
                    /\ IsUpperMedian(vals, st.median)

\* C6: for every non-empty list of metric values, the median stats() returns
\* is the element at 0-based index len // 2 of the ascending-sorted values
\* (for an even length, the upper of the two middle elements and not their
\* mean); for the LCP values 1000, 2000, 3000, 4000 it is 3000.
C6_MedianIsElementAtHalfLength ==
    HasStats =>
        LET m == results[1].analysis.metrics
            lcps == Lcps(all_results)
        IN /\ MedianOk(Fcps(all_results), m.fcp)
           /\ MedianOk(lcps, m.lcp)
           /\ MedianOk(Ttfbs(all_results), m.ttfb)
           /\ MedianOk(Counts(all_results), m.resources)
           /\ ( /\ Len(lcps) = 4
                /\ { lcps[i] : i \in 1..4 } = { 1000, 2000, 3000, 4000 } )
              => m.lcp.median = 3000

\* The LCP values 4000, 1000, 3000, 2000 (in that run order) were analysed:
\* the median is 3000, the mean of the two middle elements would be 2500.
C6_Witness ==
    /\ HasStats
    /\ Lcps(all_results) = << 4000, 1000, 3000, 2000 >>
    /\ results[1].analysis.metrics.lcp.median = 3000

\* The rating the thresholds a (excellent) and b (good) give to a list of
\* values by its mean; an empty list is rated poor.
Class(vals, a, b) ==
    IF vals = << >> THEN "poor"
    ELSE IF Sum(vals) < a * Len(vals) THEN "excellent"
    ELSE IF Sum(vals) < b * Len(vals) THEN "good"
    ELSE "poor"

\* C7: for every non-empty result sequence fcp_rating is excellent / good /
\* poor by avg < 1800 / avg < 3000 / otherwise, lcp_rating by avg < 2500 /
\* avg < 4000 / otherwise, overall_rating is excellent iff both are
\* excellent, good iff neither is poor and not both are excellent, and
\* needs_improvement otherwise; a metric without data is rated poor and
\* forces needs_improvement.
C7_AssessmentByThresholds ==
    (Returned /\ all_results # << >>) =>
        LET a == results[1].analysis.assessment
            f == Class(Fcps(all_results), 1800, 3000)
            l == Class(Lcps(all_results), 2500, 4000)
        IN /\ a.fcp_rating = f
           /\ a.lcp_rating = l
           /\ a.overall_rating \in { "excellent", "good", "needs_improvement" }
           /\ a.overall_rating = "excellent" <=> (f = "excellent" /\ l = "excellent")
           /\ a.overall_rating = "good" <=>
                (f # "poor" /\ l # "poor" /\ ~(f = "excellent" /\ l = "excellent"))
           /\ (Fcps(all_results) = << >> \/ Lcps(all_results) = << >>)
                => a.overall_rating = "needs_improvement"

\* A single run with FCP exactly 1800 and no LCP: FCP is rated good (not
\* excellent), LCP poor, overall needs_improvement.
C7_Witness ==
    /\ Returned
    /\ Fcps(all_results) = << 1800 >>
    /\ Lcps(all_results) = << >>
    /\ results[1].analysis.assessment =
         [ fcp_rating |-> "good", lcp_rating |-> "poor",
           overall_rating |-> "needs_improvement" ]

\* The LCP record held by the metrics the evaluation returned.
ReturnedLcp == metrics[1].web_vitals.lcp_details

\* C8: in the LCP record returned after the window, for n >= 1 accumulated
\* candidates, measurements has n items with sequence numbers 1..n in
\* arrival order, the item with sequence n is the only one classified
\* final_lcp and every item with a smaller sequence is superseded.
C8_LastMeasurementIsFinal ==
    (metrics # << >> /\ arrivals # << >>) =>
        LET m == ReturnedLcp.measurements
            n == Len(arrivals)
        IN /\ Len(m) = n
           /\ \A i \in 1..n :
                /\ m[i].sequence = i
                /\ m[i].timing = arrivals[i].startTime
                /\ m[i].size = arrivals[i].size
                /\ m[i].reason = IF i = n THEN "final_lcp" ELSE "superseded"

\* Three candidates were accumulated and the record was returned.
C8_Witness ==
    /\ metrics # << >>
    /\ Len(arrivals) = 3
    /\ Len(ReturnedLcp.measurements) = 3
    /\ ReturnedLcp.measurements[3].reason = "final_lcp"
    /\ ReturnedLcp.measurements[1].reason = "superseded"

\* C9: the LCP value and finalElement of a run are those of the last
\* candidate, in arrival order, handed to the observer before the timer
\* fired; a candidate emitted after the timer fired leaves the in-page
\* record and the returned record as they were; with no candidate in the
\* window the value is null and a no-data reason is recorded.
C9_LastArrivalInWindowWins ==
    metrics # << >> =>
        /\ lcpDetails = ReturnedLcp
        /\ metrics[1].web_vitals.lcp = ReturnedLcp.value
        /\ IF arrivals = << >>
           THEN /\ ReturnedLcp.value = Null
                /\ "reason" \in DOMAIN ReturnedLcp
                /\ ReturnedLcp.entries = << >>
           ELSE /\ ReturnedLcp.value = Last(arrivals).startTime
                /\ ReturnedLcp.finalElement = Last(arrivals).element
                /\ "reason" \notin DOMAIN ReturnedLcp

\* The candidate with the greater startTime and size arrived first, the
\* smaller one last, and a third was emitted after the timer fired: the
\* reported value is the startTime of the second.
C9_Witness ==
    /\ metrics # << >>
    /\ Len(arrivals) = 2
    /\ arrivals[1].startTime > arrivals[2].startTime
    /\ arrivals[1].size > arrivals[2].size
    /\ late = 1
    /\ metrics[1].web_vitals.lcp = arrivals[2].startTime
    /\ ReturnedLcp.finalElement = NoElement

\* The step of the per-run protocol an adapter command belongs to.
Stage(cmd) ==
    CASE cmd = "connect_over_cdp" -> 1
      [] cmd = "set_extra_http_headers" -> 1
      [] cmd \in { "goto_networkidle", "goto_domcontentloaded" } -> 2
      [] cmd \in { "new_cdp_session", "Network.clearBrowserCache",
                   "Network.clearBrowserCookies", "reload_networkidle",
                   "reload_domcontentloaded", "sleep_warm" } -> 3
      [] cmd = "sleep_stabilize" -> 4
      [] cmd = "evaluate" -> 5
      [] OTHER -> 6

\* Some command among cmds was issued before position j of the log.
IssuedBefore(cmds, j) == \E i \in 1..(j - 1) : log[i] \in cmds

\* C10: within one run the steps occur in the order connect, initial
\* navigation, cache policy, stabilization pause, metrics collection.  In
\* cold mode the cache-clear and then the cookie-clear command are issued
\* after the initial navigation and before any reload, and metrics are
\* collected only after the reload; in warm mode no cache-clear, no
\* cookie-clear and no reload is issued.
C10_StepOrderAndCachePolicy ==
    /\ \A i, j \in 1..Len(log) : i < j => Stage(log[i]) <= Stage(log[j])
    /\ \A j \in 1..Len(log) :
         /\ Stage(log[j]) \in 2..5 =>
              \E i \in 1..(j - 1) : Stage(log[i]) = Stage(log[j]) - 1
         /\ log[j] = "Network.clearBrowserCache" =>
              /\ IssuedBefore({ "goto_networkidle" }, j)
              /\ ~IssuedBefore({ "reload_networkidle", "reload_domcontentloaded" }, j)
         /\ log[j] = "Network.clearBrowserCookies" =>
              /\ IssuedBefore({ "Network.clearBrowserCache" }, j)
              /\ ~IssuedBefore({ "reload_networkidle", "reload_domcontentloaded" }, j)
         /\ log[j] \in { "reload_networkidle", "reload_domcontentloaded" } =>
              IssuedBefore({ "Network.clearBrowserCookies" }, j)
         /\ (log[j] = "evaluate" /\ cache_mode = "cold") =>
              IssuedBefore({ "reload_networkidle" }, j)
         /\ cache_mode = "warm" =>
              log[j] \notin { "new_cdp_session", "Network.clearBrowserCache",
                              "Network.clearBrowserCookies",
                              "reload_networkidle", "reload_domcontentloaded" }

\* A cold run whose reload needed the fallback reached metrics collection.
C10_Witness ==
    /\ cache_mode = "cold"
    /\ metrics # << >>
    /\ log = << "connect_over_cdp", "goto_networkidle", "new_cdp_session",
                "Network.clearBrowserCache", "Network.clearBrowserCookies",
                "reload_networkidle", "reload_domcontentloaded",
                "sleep_stabilize", "evaluate" >>

\* The number of commands of cmds issued so far in the current run.
Issued(cmds) == Cardinality({ i \in 1..Len(log) : log[i] \in cmds })

\* The commands of the initial navigation and of the cold-mode reload.
GotoCmds == { "goto_networkidle", "goto_domcontentloaded" }

ReloadCmds == { "reload_networkidle", "reload_domcontentloaded" }

\* C11: a failed network-idle navigation (or network-idle reload) is not a
\* run failure: it is followed by exactly one DOM-content-loaded attempt;
\* when that attempt succeeds the run goes on to the next step, and the run
\* fails at the navigation or reload only when the fallback attempt failed.
\* A run makes at most two navigation and at most two reload attempts.
C11_NavigationFallsBackOnce ==
    /\ Issued(GotoCmds) <= 2
    /\ Issued(ReloadCmds) <= 2
    /\ Issued({ "goto_domcontentloaded" }) <= 1
    /\ Issued({ "reload_domcontentloaded" }) <= 1
    /\ \A j \in 1..Len(log) :
         /\ log[j] = "goto_domcontentloaded" =>
              j > 1 /\ log[j - 1] = "goto_networkidle"
         /\ log[j] = "reload_domcontentloaded" =>
              j > 1 /\ log[j - 1] = "reload_networkidle"
    /\ pc = "goto_fallback" =>
         pending = "none" /\ Last(log) = "goto_networkidle"
    /\ pc = "reload_fallback" =>
         pending = "none" /\ Last(log) = "reload_networkidle"
    /\ (Len(log) > 0 /\ pending = "none") =>
         /\ Last(log) = "goto_networkidle" =>
              pc \in { CachePolicy, "goto_fallback" }
         /\ Last(log) = "goto_domcontentloaded" => pc = CachePolicy
         /\ Last(log) = "reload_networkidle" =>
              pc \in { "stabilize", "reload_fallback" }
         /\ Last(log) = "reload_domcontentloaded" => pc = "stabilize"
    /\ (pc = "finally" /\ pending = "return_none" /\ Len(log) > 0) =>
         Last(log) \notin { "goto_networkidle", "reload_networkidle" }

\* A cold run in which both the network-idle navigation and the
\* network-idle reload failed and both fallbacks succeeded has returned its
\* metrics.
C11_Witness ==
    /\ pc = "finally"
    /\ pending = "return_metrics"
    /\ Issued(GotoCmds) = 2
    /\ Issued(ReloadCmds) = 2

\* The states of main.run_test after the run loop of run_test was left.
AfterLoop == { "analyze", "display", "save", "main_except", "done" }

\* C12: runs are strictly sequential and separated by the inter-run wait:
\* at most one browser session is open at any time; an attempt starts only
\* when the attempt before it has ended and its wait has elapsed; the wait
\* follows every attempt that is not the last one, failed or not, and never
\* the last one, so the attempts made involve one wait less than attempts.
C12_SequentialRunsSeparatedByWait ==
    /\ openSessions \in { 0, 1 }
    /\ pc = "connect" => openSessions = 0 /\ waits = attempts - 1
    /\ pc = "loop" => openSessions = 0 /\ waits = attempts
    /\ pc = "wait" => run < runs /\ openSessions = 0
    /\ pc \in (TryBlock \cup { "finally", "after_run", "wait" }) =>
         waits = attempts - 1
    /\ waits <= runs - 1
    /\ (~interrupted /\ pc \in AfterLoop) =>
         \A k \in 1..Len(fate) : k < runs => waits >= k

\* Record r carries a navigation timing with a numeric ttfb, the number of
\* a successful attempt made so far and the requested cache mode.
WellFormedRecord(r) ==
    /\ "navigation" \in DOMAIN r
    /\ r.navigation.ttfb \in Nat
    /\ r.run_number \in 1..Len(fate)
    /\ fate[r.run_number] = "ok"
    /\ r.cache_mode = cache_mode

\* The records of rs are well formed and their run numbers increase
\* strictly.
WellFormedResults(rs) ==
    /\ \A i \in 1..Len(rs) : WellFormedRecord(rs[i])
    /\ \A i, j \in 1..Len(rs) : i < j => rs[i].run_number < rs[j].run_number

\* The Metrics Collector returned a record for the current run.
Collected == metrics # << >>

\* C13: every record that reaches 'results' has a navigation timing with a
\* numeric ttfb, the run_number of the attempt that produced it and the
\* requested cache_mode, and the run_numbers in 'results' increase
\* strictly.  A run whose collected metrics lack the navigation entry is a
\* failed run: the Metrics Collector returned a record, the run returns
\* none and nothing is added to 'results' for it.
C13_RecordsWellFormedNavlessRunFails ==
    /\ WellFormedResults(all_results)
    /\ results # << >> => WellFormedResults(results[1].results)
    /\ (Collected /\ pending = "return_metrics") =>
         /\ "navigation" \in DOMAIN metrics[1]
         /\ metrics[1].navigation.ttfb \in Nat
         /\ metrics[1].run_number = run
         /\ metrics[1].cache_mode = cache_mode
         /\ fate[run] = "ok"
    /\ ( /\ Collected
         /\ "navigation" \notin DOMAIN metrics[1]
         /\ pc \in { "finally", "after_run" } )
       => /\ pending = "return_none"
          /\ Len(fate) = run
          /\ fate[run] = "failed"
          /\ \A i \in 1..Len(all_results) : all_results[i].run_number # run

\* Run 1 produced a record that is in all_results; run 2 collected a
\* record without navigation entry and is ending as a failed run.
C13_Witness ==
    /\ pc = "after_run"
    /\ run = 2
    /\ RunNumbers(all_results) = << 1 >>
    /\ Collected
    /\ "navigation" \notin DOMAIN metrics[1]
    /\ pending = "return_none"

====
